---- MODULE Spec2Model ----
(***************************************************************************)
(* Model of main.py of cn-holiday-sqlgen: the yearly work-calendar         *)
(* generator.  One run of main() loads the configuration, builds the       *)
(* generator (DateTypeJudge.__init__), enumerates the target year,         *)
(* classifies every date against the holiday oracle (chinese_calendar),    *)
(* and saves the SQL and the CSV file.                                     *)
(*                                                                         *)
(* Texts (Python str) are sequences of pieces: a piece is either the       *)
(* single-quote character Q or a run of characters holding no quote.       *)
(* The per-date informational log lines of judge_date_type are not part    *)
(* of the state; error lines and the "saved"/"done" lines are.             *)
(***************************************************************************)
EXTENDS Integers, Sequences, FiniteSets, TLC

VARIABLES
    config_file,     \* the configuration document on disk (input of the run)
    oracle,          \* the holiday oracle the run talks to (input of the run)
    fs,              \* the filesystem: created directories and files
    pc,              \* position of main()
    config,          \* the Config object returned by load_config
    date_judge,      \* the four codes held by DateTypeJudge
    dates,           \* generate(): the list returned by get_whole_year
    df,              \* generate(): rows of the DataFrame, in index order
    sql_statements,  \* generate(): the list of SQL statements
    exc,             \* the exception that ended the run, if any
    log,             \* logger output of this run (error and saved/done lines)
    io_trace,        \* filesystem operations performed by this run, in order
    first_run        \* TRUE until main() is started again on the same machine

vars == <<config_file, oracle, fs, pc, config, date_judge, dates, df,
          sql_statements, exc, log, io_trace, first_run>>

(***************************************************************************)
(* Bounds of the model.                                                    *)
(***************************************************************************)
\* oracles differ by a shift of their answer cycle, 0..MaxShift
MaxShift == 0
\* get_whole_year is applied to every year FirstEnumYear..FirstEnumYear+EnumSpan
EnumSpan == 210
FirstEnumYear == 1895
\* iterations of the loop of get_whole_year evaluated per chunk
LoopChunk == 32

(***************************************************************************)
(* Texts                                                                   *)
(***************************************************************************)
Q == "'"

RECURSIVE CountQ(_)
CountQ(text) ==
    IF text = <<>> THEN 0
    ELSE (IF Head(text) = Q THEN 1 ELSE 0) + CountQ(Tail(text))

\* f"{n}" for an int
IntText(n) == <<ToString(n)>>

Pad2(n) == IF n < 10 THEN "0" \o ToString(n) ELSE ToString(n)

(***************************************************************************)
(* Exceptions and call results                                             *)
(***************************************************************************)
NoExc == [type |-> "None", arg |-> <<>>]
Exc(type, arg) == [type |-> type, arg |-> arg]
Return(v) == [ok |-> TRUE, val |-> v, exc |-> NoExc]
Raise(type, arg) == [ok |-> FALSE, val |-> <<>>, exc |-> Exc(type, arg)]

(***************************************************************************)
(* datetime.date, datetime.timedelta(days=1), strftime, strptime           *)
(***************************************************************************)
MINYEAR == 1
MAXYEAR == 9999

IsLeap(y) == (y % 4 = 0 /\ y % 100 # 0) \/ y % 400 = 0

DaysInMonth(y, m) ==
    IF m = 2 THEN (IF IsLeap(y) THEN 29 ELSE 28)
    ELSE IF m \in {4, 6, 9, 11} THEN 30 ELSE 31

\* datetime.date(year, month, day): ValueError outside MINYEAR..MAXYEAR
date_new(y, m, d) ==
    IF y < MINYEAR \/ y > MAXYEAR
    THEN Raise("ValueError", <<"year ", ToString(y), " is out of range">>)
    ELSE Return(<<y, m, d>>)

\* a <= b on dates
DateLE(a, b) ==
    \/ a[1] < b[1]
    \/ a[1] = b[1] /\ a[2] < b[2]
    \/ a[1] = b[1] /\ a[2] = b[2] /\ a[3] <= b[3]

\* current + timedelta(days=1): OverflowError past date.max
date_add_day(dt) ==
    IF dt[3] < DaysInMonth(dt[1], dt[2]) THEN Return(<<dt[1], dt[2], dt[3] + 1>>)
    ELSE IF dt[2] < 12 THEN Return(<<dt[1], dt[2] + 1, 1>>)
    ELSE IF dt[1] < MAXYEAR THEN Return(<<dt[1] + 1, 1, 1>>)
    ELSE Raise("OverflowError", <<"date value out of range">>)

\* current.strftime("%Y-%m-%d"); the years of the model have four digits
strftime(dt) == <<ToString(dt[1]), "-", Pad2(dt[2]), "-", Pad2(dt[3])>>

\* every year the model hands to the program
EnumYears == (FirstEnumYear .. (FirstEnumYear + EnumSpan))
                \cup {0, 9998, 9999, 10000}

\* the target years of the configuration documents
TargetYears == {2024, 2025, 9999}

\* datetime.datetime.strptime(date_str, '%Y-%m-%d').date(), for the date
\* strings of the target years
strptime(date_str) ==
    <<CHOOSE y \in TargetYears : ToString(y) = date_str[1],
      CHOOSE m \in 1..12 : Pad2(m) = date_str[3],
      CHOOSE d \in 1..31 : Pad2(d) = date_str[5]>>

(***************************************************************************)
(* CalendarGenerator.get_whole_year                                        *)
(***************************************************************************)
\* at most n iterations of "while current <= end": the loop is evaluated in
\* chunks of LoopChunk iterations to bound the depth of evaluation
RECURSIVE WhileChunk(_, _, _, _)
WhileChunk(current, end, days, n) ==
    IF n = 0 \/ ~DateLE(current, end)
    THEN [ok |-> TRUE, current |-> current, days |-> days, exc |-> NoExc]
    ELSE LET appended == Append(days, strftime(current))
             next     == date_add_day(current)
         IN  IF next.ok THEN WhileChunk(next.val, end, appended, n - 1)
             ELSE [ok |-> FALSE, current |-> current, days |-> appended,
                   exc |-> next.exc]

RECURSIVE WholeYearLoop(_, _, _)
WholeYearLoop(current, end, days) ==
    IF DateLE(current, end)
    THEN LET s == WhileChunk(current, end, days, LoopChunk) IN
         IF s.ok THEN WholeYearLoop(s.current, end, s.days)
         ELSE [ok |-> FALSE, val |-> <<>>, exc |-> s.exc]
    ELSE Return(days)

get_whole_year(year) ==
    LET begin == date_new(year, 1, 1)
        end   == date_new(year, 12, 31)
    IN  IF ~begin.ok THEN [ok |-> FALSE, val |-> <<>>, exc |-> begin.exc]
        ELSE WholeYearLoop(begin.val, end.val, <<>>)

(***************************************************************************)
(* The holiday oracle (chinese_calendar): is_holiday, is_workday and       *)
(* get_holiday_detail.  An oracle is a fixed function of the date, read    *)
(* off a cycle of answers; NumAnswers consecutive days see every answer.   *)
(* A "bad" oracle reports neither holiday nor workday on one date.         *)
(***************************************************************************)
NoName == <<>>
HolidayNames ==
    << NoName,
       << <<"New Year">> >>,
       << <<"Workers", Q, " Day">> >>,
       << <<Q, "x", Q, Q>> >> >>

NumAnswers == 3 * Len(HolidayNames)

CycleAnswer(k) ==
    [is_holiday |-> (k % 3) # 1,
     is_workday |-> (k % 3) # 0,
     name       |-> HolidayNames[(k \div 3) + 1]]

BadKinds == {"none", "first", "middle", "last"}

BadDate(kind) ==
    IF kind = "first" THEN <<1, 1>>
    ELSE IF kind = "middle" THEN <<7, 2>>
    ELSE IF kind = "last" THEN <<12, 31>>
    ELSE <<0, 0>>

Oracles == [shift : 0..MaxShift, bad : BadKinds]

OracleAnswer(o, date) ==
    IF <<date[2], date[3]>> = BadDate(o.bad)
    THEN [is_holiday |-> FALSE, is_workday |-> FALSE,
          name |-> IF o.bad = "first" THEN NoName ELSE HolidayNames[2]]
    ELSE CycleAnswer((date[2] * 31 + date[3] + o.shift) % NumAnswers)

is_holiday(o, date) == OracleAnswer(o, date).is_holiday
is_workday(o, date) == OracleAnswer(o, date).is_workday
get_holiday_detail(o, date) ==
    <<OracleAnswer(o, date).is_holiday, OracleAnswer(o, date).name>>

\* str(holiday_name)
Str(name) == name[1]

(***************************************************************************)
(* Configuration documents and ConfigLoader.load_config                    *)
(***************************************************************************)
Roles == <<"workday", "weekend", "holiday", "working_holiday">>
RoleSet == {Roles[i] : i \in 1..4}

Entry(code) == [code |-> code, description |-> "d"]

\* four distinct plain codes
DateTypesA ==
    [workday |-> Entry(<<"0">>), weekend |-> Entry(<<"1">>),
     holiday |-> Entry(<<"2">>), working_holiday |-> Entry(<<"3">>)]

\* weekend and holiday share a code, the workday code holds a quote, and the
\* mapping has a fifth key
DateTypesB ==
    [workday |-> Entry(<<"W", Q>>), weekend |-> Entry(<<"1">>),
     holiday |-> Entry(<<"1">>), working_holiday |-> Entry(<<"3">>),
     other |-> Entry(<<"9">>)]

Restrict(f, S) == [k \in S |-> f[k]]

\* DateTypesA with some of the required keys missing
DateTypesMissing ==
    {Restrict(DateTypesA, S) : S \in (SUBSET RoleSet) \ {RoleSet}}

\* DateTypesA whose holiday entry has no 'code'
DateTypesNoCode ==
    [DateTypesA EXCEPT !["holiday"] = [description |-> "d"]]

Doc(table, year, dt) ==
    [database   |-> [table_name |-> table],
     generation |-> [target_year |-> year, save_path |-> "out"],
     date_types |-> dt]

GoodDocs ==
    {Doc(<<"WORK_CALENDAR">>, y, dt) :
        y \in TargetYears, dt \in {DateTypesA, DateTypesB}}

BadDocs ==
    {Doc(<<"WORK_CALENDAR">>, 2025, dt) :
        dt \in DateTypesMissing \cup {DateTypesNoCode}}
    \cup {Restrict(Doc(<<"WORK_CALENDAR">>, 2025, DateTypesA), S) :
            S \in {{"generation", "date_types"}, {"database", "date_types"},
                   {"database", "generation"}}}
    \cup {[Doc(<<"WORK_CALENDAR">>, 2025, DateTypesA)
             EXCEPT !["generation"] = [target_year |-> 2025]]}

ConfigFiles ==
    {[exists |-> FALSE, yaml_ok |-> FALSE, doc |-> <<>>],
     [exists |-> TRUE, yaml_ok |-> FALSE, doc |-> <<>>]}
    \cup {[exists |-> TRUE, yaml_ok |-> TRUE, doc |-> d] :
            d \in GoodDocs \cup BadDocs}

NoConfig ==
    [table_name |-> <<>>, target_year |-> 0, save_path |-> "",
     date_types |-> <<>>]

\* the (section, key) lookups of load_config, in evaluation order
ConfigLookups ==
    << <<"database", "table_name">>, <<"generation", "target_year">>,
       <<"generation", "save_path">>, <<"date_types">> >>

LookupMissing(doc, path) ==
    IF path[1] \notin DOMAIN doc THEN <<path[1]>>
    ELSE IF Len(path) = 2 /\ path[2] \notin DOMAIN doc[path[1]] THEN <<path[2]>>
    ELSE <<>>

load_config(file) ==
    IF ~file.exists THEN Raise("FileNotFoundError", <<"config.yaml">>)
    ELSE IF ~file.yaml_ok THEN Raise("YAMLError", <<"config.yaml">>)
    ELSE LET bad == {i \in 1..Len(ConfigLookups) :
                        LookupMissing(file.doc, ConfigLookups[i]) # <<>>}
         IN  IF bad # {}
             THEN LET i == CHOOSE i \in bad : \A j \in bad : i <= j
                  IN  Raise("KeyError", LookupMissing(file.doc, ConfigLookups[i]))
             ELSE Return([table_name  |-> file.doc.database.table_name,
                          target_year |-> file.doc.generation.target_year,
                          save_path   |-> file.doc.generation.save_path,
                          date_types  |-> file.doc.date_types])

(***************************************************************************)
(* DateTypeJudge                                                           *)
(***************************************************************************)
NoJudge ==
    [workday_code |-> <<>>, weekend_code |-> <<>>, holiday_code |-> <<>>,
     working_holiday_code |-> <<>>]

\* config.date_types[role]['code']: the key whose lookup fails, or <<>>
CodeMissing(date_types, role) ==
    IF role \notin DOMAIN date_types THEN <<role>>
    ELSE IF "code" \notin DOMAIN date_types[role] THEN <<"code">>
    ELSE <<>>

\* the same lookups with the holiday key read lazily (dict.get with a default)
DateTypeJudgeInitLazy(cfg) ==
    LET dt  == cfg.date_types
        bad == {i \in {1, 2, 4} : CodeMissing(dt, Roles[i]) # <<>>}
    IN  IF bad # {}
        THEN LET i == CHOOSE i \in bad : \A j \in bad : i <= j
             IN  Raise("KeyError", CodeMissing(dt, Roles[i]))
        ELSE Return([workday_code         |-> dt["workday"]["code"],
                     weekend_code         |-> dt["weekend"]["code"],
                     holiday_code         |->
                         IF CodeMissing(dt, "holiday") = <<>>
                         THEN dt["holiday"]["code"] ELSE <<"2">>,
                     working_holiday_code |-> dt["working_holiday"]["code"]])

DateTypeJudgeInit(cfg) ==
    LET dt  == cfg.date_types
        bad == {i \in 1..4 : CodeMissing(dt, Roles[i]) # <<>>}
    IN  IF bad # {}
        THEN LET i == CHOOSE i \in bad : \A j \in bad : i <= j
             IN  Raise("KeyError", CodeMissing(dt, Roles[i]))
        ELSE Return([workday_code         |-> dt["workday"]["code"],
                     weekend_code         |-> dt["weekend"]["code"],
                     holiday_code         |-> dt["holiday"]["code"],
                     working_holiday_code |-> dt["working_holiday"]["code"]])

\* the workday test made before the holiday test
judge_date_type_workday_first(judge, o, date_str) ==
    LET date == strptime(date_str)
        name == get_holiday_detail(o, date)[2]
    IN  IF is_workday(o, date)
        THEN IF name # NoName
             THEN Return(<<judge.working_holiday_code, Str(name)>>)
             ELSE Return(<<judge.workday_code, <<>> >>)
        ELSE IF is_holiday(o, date)
        THEN IF name # NoName
             THEN Return(<<judge.holiday_code, Str(name)>>)
             ELSE Return(<<judge.weekend_code, <<>> >>)
        ELSE Raise("ValueError", date_str)

\* a date that matches nothing falls back to a workday
judge_date_type_default(judge, o, date_str) ==
    LET date == strptime(date_str)
        name == get_holiday_detail(o, date)[2]
    IN  IF is_holiday(o, date)
        THEN IF name # NoName
             THEN Return(<<judge.holiday_code, Str(name)>>)
             ELSE Return(<<judge.weekend_code, <<>> >>)
        ELSE IF name # NoName
             THEN Return(<<judge.working_holiday_code, Str(name)>>)
             ELSE Return(<<judge.workday_code, <<>> >>)

judge_date_type(judge, o, date_str) ==
    LET date == strptime(date_str)
    IN  IF is_holiday(o, date)
        THEN LET holiday_name == get_holiday_detail(o, date)[2]
             IN  IF holiday_name # NoName
                 THEN Return(<<judge.holiday_code, Str(holiday_name)>>)
                 ELSE Return(<<judge.weekend_code, <<>> >>)
        ELSE IF is_workday(o, date)
        THEN LET holiday_name == get_holiday_detail(o, date)[2]
             IN  IF holiday_name # NoName
                 THEN Return(<<judge.working_holiday_code, Str(holiday_name)>>)
                 ELSE Return(<<judge.workday_code, <<>> >>)
        ELSE Raise("ValueError", date_str)

(***************************************************************************)
(* CalendarGenerator.generate_sql                                          *)
(***************************************************************************)
\* the remark put into the statement as it is
escape_quotes_none(remark) == remark

\* re.sub(r"'", "''", remark)
RECURSIVE escape_quotes(_)
escape_quotes(remark) ==
    IF remark = <<>> THEN <<>>
    ELSE (IF Head(remark) = Q THEN <<Q, Q>> ELSE <<Head(remark)>>)
            \o escape_quotes(Tail(remark))

SqlText(table_name, year, date, date_type, escaped_remark) ==
    <<"INSERT INTO ">> \o table_name \o <<" VALUES (">>
        \o <<Q>> \o IntText(year) \o <<Q, ", ">>
        \o <<Q>> \o date \o <<Q, ", ">>
        \o <<Q>> \o date_type \o <<Q, ", ">>
        \o <<Q>> \o escaped_remark \o <<Q>>
        \o <<");\n">>

\* the date type written into the remark column as well
generate_sql_wrong_column(table_name, year, date, date_type, remark) ==
    SqlText(table_name, year, date, date_type, escape_quotes(date_type))

generate_sql(table_name, year, date, date_type, remark) ==
    LET escaped_remark == escape_quotes(remark)
    IN  SqlText(table_name, year, date, date_type, escaped_remark)

(***************************************************************************)
(* The DataFrame and the files                                             *)
(***************************************************************************)
Columns == <<"YEAR", "CALENDAR_DATE", "DATE_TYPE", "COMMENTS">>

Row(year, date_str, date_type, remark) ==
    [YEAR |-> year, CALENDAR_DATE |-> date_str, DATE_TYPE |-> date_type,
     COMMENTS |-> remark]

\* every row stored under the label 0
DfLocSetFirstRow(frame, index, row) ==
    IF Len(frame) >= 1 THEN [frame EXCEPT ![1] = row] ELSE Append(frame, row)

\* df.loc[index] = row, index counted from 0
DfLocSet(frame, index, row) ==
    IF index + 1 <= Len(frame) THEN [frame EXCEPT ![index + 1] = row]
    ELSE Append(frame, row)

\* df.to_csv(index=False, encoding='utf-8-sig'): the byte-order mark, the
\* header line, one line of four fields per row
to_csv(frame) ==
    << <<"BOM">>, Columns >>
        \o [i \in 1..Len(frame) |->
              <<IntText(frame[i].YEAR), frame[i].CALENDAR_DATE,
                frame[i].DATE_TYPE, frame[i].COMMENTS>>]

\* the file name stem and the two paths of _save_files
FileBasePath(cfg) == cfg.save_path \o "/" \o ToString(cfg.target_year) \o "Day"
SqlFile(cfg) == FileBasePath(cfg) \o ".sql"
CsvFile(cfg) == FileBasePath(cfg) \o ".csv"

EmptyFS == [dirs |-> {}, files |-> <<>>]

\* a file opened in append mode keeps what it held
write_file_append(files, path, lines) ==
    IF path \in DOMAIN files
    THEN [files EXCEPT ![path] = [complete |-> TRUE, data |-> @.data \o lines]]
    ELSE [p \in DOMAIN files \cup {path} |->
            IF p = path THEN [complete |-> TRUE, data |-> lines] ELSE files[p]]

\* a write that stops midway and reports nothing
write_file_cut_short(files, path, lines) ==
    [p \in DOMAIN files \cup {path} |->
        IF p = path
        THEN [complete |-> FALSE, data |-> SubSeq(lines, 1, Len(lines) \div 2)]
        ELSE files[p]]

\* open(path, 'w') and a complete write: the file holds exactly the lines
write_file(files, path, lines) ==
    [p \in DOMAIN files \cup {path} |->
        IF p = path THEN [complete |-> TRUE, data |-> lines] ELSE files[p]]

\* open(path, 'w') succeeded and the write stopped midway
write_file_partial(files, path, lines) ==
    [p \in DOMAIN files \cup {path} |->
        IF p = path
        THEN [complete |-> FALSE, data |-> SubSeq(lines, 1, Len(lines) \div 2)]
        ELSE files[p]]

(***************************************************************************)
(* CalendarGenerator.generate: the loop over enumerate(dates)              *)
(***************************************************************************)
LoopStart == [ok |-> TRUE, sql_statements |-> <<>>, df |-> <<>>, exc |-> NoExc]

\* one iteration: index is the number of iterations made so far
LoopBody(judge, o, cfg, ds, st) ==
    LET index    == Len(st.sql_statements)
        date_str == ds[index + 1]
        r        == judge_date_type(judge, o, date_str)
    IN  IF r.ok
        THEN [ok |-> TRUE,
              sql_statements |->
                  Append(st.sql_statements,
                         generate_sql(cfg.table_name, cfg.target_year,
                                      date_str, r.val[1], r.val[2])),
              df |-> DfLocSet(st.df, index,
                              Row(cfg.target_year, date_str, r.val[1], r.val[2])),
              exc |-> NoExc]
        ELSE [st EXCEPT !.ok = FALSE, !.exc = r.exc]

\* at most n iterations (the loop is evaluated in chunks of LoopChunk)
RECURSIVE ForChunk(_, _, _, _, _, _)
ForChunk(judge, o, cfg, ds, st, n) ==
    IF n = 0 \/ ~st.ok \/ Len(st.sql_statements) = Len(ds) THEN st
    ELSE ForChunk(judge, o, cfg, ds, LoopBody(judge, o, cfg, ds, st), n - 1)

RECURSIVE ForLoop(_, _, _, _, _)
ForLoop(judge, o, cfg, ds, st) ==
    IF ~st.ok \/ Len(st.sql_statements) = Len(ds) THEN st
    ELSE ForLoop(judge, o, cfg, ds, ForChunk(judge, o, cfg, ds, st, LoopChunk))

(***************************************************************************)
(* main(): the run                                                         *)
(***************************************************************************)
Init ==
    /\ config_file \in ConfigFiles
    /\ oracle \in Oracles
    /\ fs = EmptyFS
    /\ pc = "start"
    /\ config = NoConfig
    /\ date_judge = NoJudge
    /\ dates = <<>>
    /\ df = <<>>
    /\ sql_statements = <<>>
    /\ exc = NoExc
    /\ log = <<>>
    /\ io_trace = <<>>
    /\ first_run = TRUE

\* the exception logged by main() and not raised again
PropagateSwallowed(e, lines) ==
    /\ pc' = "done"
    /\ exc' = NoExc
    /\ log' = log \o lines \o << <<"ERROR", "run failed", e.type>> >>

\* an exception reaches main(): logged there and raised again
Propagate(e, lines) ==
    /\ pc' = "failed"
    /\ exc' = e
    /\ log' = log \o lines \o << <<"ERROR", "run failed", e.type>> >>

\* config = ConfigLoader.load_config()
LoadConfig ==
    /\ pc = "start"
    /\ LET r == load_config(config_file) IN
        \/ /\ r.ok
           /\ config' = r.val
           /\ pc' = "new_generator"
           /\ UNCHANGED <<exc, log>>
        \/ /\ ~r.ok
           /\ Propagate(r.exc, << <<"ERROR", "config", r.exc.type>> >>)
           /\ UNCHANGED config
    /\ UNCHANGED <<config_file, oracle, fs, date_judge, dates, df,
                   sql_statements, io_trace, first_run>>

\* generator = CalendarGenerator(config)
NewGenerator ==
    /\ pc = "new_generator"
    /\ LET r == DateTypeJudgeInit(config) IN
        \/ /\ r.ok
           /\ date_judge' = r.val
           /\ pc' = "generate"
           /\ UNCHANGED <<exc, log>>
        \/ /\ ~r.ok
           /\ Propagate(r.exc, <<>>)
           /\ UNCHANGED date_judge
    /\ UNCHANGED <<config_file, oracle, fs, config, dates, df,
                   sql_statements, io_trace, first_run>>

\* generate(): dates = self.get_whole_year(self.config.target_year)
GenerateBegin ==
    /\ pc = "generate"
    /\ \E r \in {get_whole_year(config.target_year)} :
        \/ /\ r.ok
           /\ dates' = r.val
           /\ pc' = "loop"
           /\ UNCHANGED <<exc, log>>
        \/ /\ ~r.ok
           /\ Propagate(r.exc, <<>>)
           /\ UNCHANGED dates
    /\ UNCHANGED <<config_file, oracle, fs, config, date_judge, df,
                   sql_statements, io_trace, first_run>>

\* generate(): the loop over enumerate(dates), run to its end or to the first
\* exception of judge_date_type; df and sql_statements are then the locals of
\* generate() at that point
GenerateLoop ==
    /\ pc = "loop"
    /\ \E st \in {ForLoop(date_judge, oracle, config, dates, LoopStart)} :
        /\ sql_statements' = st.sql_statements
        /\ df' = st.df
        /\ \/ /\ st.ok
              /\ pc' = "save"
              /\ UNCHANGED <<exc, log>>
           \/ /\ ~st.ok
              /\ Propagate(st.exc,
                    << <<"ERROR", "no type matched", st.exc.arg>> >>)
    /\ UNCHANGED <<config_file, oracle, fs, config, date_judge, dates,
                   io_trace, first_run>>

\* _save_files(): ensure_dir_exists(save_path, "<year>Day")
EnsureDir ==
    /\ pc = "save"
    /\ \/ /\ fs' = [fs EXCEPT !.dirs = @ \cup {config.save_path}]
          /\ io_trace' = Append(io_trace, "mkdir")
          /\ pc' = "write_sql"
          /\ UNCHANGED <<exc, log>>
       \/ /\ Propagate(Exc("OSError", <<config.save_path>>), <<>>)
          /\ UNCHANGED <<fs, io_trace>>
    /\ UNCHANGED <<config_file, oracle, config, date_judge, dates, df,
                   sql_statements, first_run>>

\* _save_files(): with open(sql_file, 'w') as f: f.writelines(sql_statements)
WriteSql ==
    /\ pc = "write_sql"
    /\ \/ /\ fs' = [fs EXCEPT
                      !.files = write_file(@, SqlFile(config), sql_statements)]
          /\ io_trace' = Append(io_trace, "sql")
          /\ log' = Append(log, <<"INFO", "sql saved", SqlFile(config)>>)
          /\ pc' = "write_csv"
          /\ UNCHANGED exc
       \/ /\ fs' = [fs EXCEPT
                      !.files = write_file_partial(@, SqlFile(config),
                                                   sql_statements)]
          /\ io_trace' = Append(io_trace, "sql partial")
          /\ Propagate(Exc("OSError", <<SqlFile(config)>>), <<>>)
       \/ /\ Propagate(Exc("OSError", <<SqlFile(config)>>), <<>>)
          /\ UNCHANGED <<fs, io_trace>>
    /\ UNCHANGED <<config_file, oracle, config, date_judge, dates, df,
                   sql_statements, first_run>>

\* _save_files(): df.to_csv(csv_file, ...), then the closing lines of generate()
WriteCsv ==
    /\ pc = "write_csv"
    /\ \/ /\ fs' = [fs EXCEPT
                      !.files = write_file(@, CsvFile(config), to_csv(df))]
          /\ io_trace' = Append(io_trace, "csv")
          /\ log' = log \o << <<"INFO", "csv saved", CsvFile(config)>>,
                              <<"INFO", "done", "">> >>
          /\ pc' = "done"
          /\ UNCHANGED exc
       \/ /\ fs' = [fs EXCEPT
                      !.files = write_file_partial(@, CsvFile(config), to_csv(df))]
          /\ io_trace' = Append(io_trace, "csv partial")
          /\ Propagate(Exc("OSError", <<CsvFile(config)>>), <<>>)
       \/ /\ Propagate(Exc("OSError", <<CsvFile(config)>>), <<>>)
          /\ UNCHANGED <<fs, io_trace>>
    /\ UNCHANGED <<config_file, oracle, config, date_judge, dates, df,
                   sql_statements, first_run>>

\* python main.py is started again: same configuration, same oracle, and the
\* filesystem as the previous run left it
Rerun ==
    /\ pc \in {"done", "failed"}
    /\ pc' = "start"
    /\ config' = NoConfig
    /\ date_judge' = NoJudge
    /\ dates' = <<>>
    /\ df' = <<>>
    /\ sql_statements' = <<>>
    /\ exc' = NoExc
    /\ log' = <<>>
    /\ io_trace' = <<>>
    /\ first_run' = FALSE
    /\ UNCHANGED <<config_file, oracle, fs>>

Next ==
    \/ LoadConfig
    \/ NewGenerator
    \/ GenerateBegin
    \/ GenerateLoop
    \/ EnsureDir
    \/ WriteSql
    \/ WriteCsv
    \/ Rerun

Spec == Init /\ [][Next]_vars

(***************************************************************************)
(* get_whole_year alone, applied to every year of EnumYears                *)
(***************************************************************************)
EnumConfig(y) ==
    [table_name |-> <<"WORK_CALENDAR">>, target_year |-> y,
     save_path |-> "out", date_types |-> DateTypesA]

InitEnum ==
    /\ \E y \in EnumYears :
        /\ config = EnumConfig(y)
        /\ config_file = [exists |-> TRUE, yaml_ok |-> TRUE,
                          doc |-> Doc(<<"WORK_CALENDAR">>, y, DateTypesA)]
    /\ oracle = [shift |-> 0, bad |-> "none"]
    /\ fs = EmptyFS
    /\ pc = "generate"
    /\ date_judge = DateTypeJudgeInit(config).val
    /\ dates = <<>>
    /\ df = <<>>
    /\ sql_statements = <<>>
    /\ exc = NoExc
    /\ log = <<>>
    /\ io_trace = <<>>
    /\ first_run = TRUE

NextEnum == GenerateBegin

SpecEnum == InitEnum /\ [][NextEnum]_vars

(***************************************************************************)
(* Notions used by the properties                                          *)
(***************************************************************************)
\* what the oracle answers for a date string
AnswerFor(date_str) == OracleAnswer(oracle, strptime(date_str))
Neither(date_str) ==
    ~AnswerFor(date_str).is_holiday /\ ~AnswerFor(date_str).is_workday

\* the loop of generate() ended on an exception of judge_date_type
ClassifyFailed ==
    pc = "failed" /\ dates # <<>> /\ Len(sql_statements) < Len(dates)

\* every date of the year has been classified
AllClassified == dates # <<>> /\ Len(sql_statements) = Len(dates)

\* the leap-year rule and the month lengths of the Gregorian calendar
LeapYear(y) == (y % 4 = 0 /\ y % 100 # 0) \/ (y % 400 = 0)
MonthLengths(y) ==
    <<31, IF LeapYear(y) THEN 29 ELSE 28, 31, 30, 31, 30, 31, 31, 30, 31, 30, 31>>

\* date string b names the calendar day after date string a
DayAfter(a, b) ==
    LET x == strptime(a)
        y == strptime(b)
    IN  \/ y = <<x[1], x[2], x[3] + 1>> /\ x[3] < MonthLengths(x[1])[x[2]]
        \/ /\ y = <<x[1], x[2] + 1, 1>>
           /\ x[3] = MonthLengths(x[1])[x[2]]
           /\ x[2] < 12

\* the same for the date strings of year y, read by their month and day
DayAfterIn(y, a, b) ==
    \E m \in 1..12 : \E d \in 1..MonthLengths(y)[m] :
        /\ a = <<ToString(y), "-", Pad2(m), "-", Pad2(d)>>
        /\ \/ d < MonthLengths(y)[m]
              /\ b = <<ToString(y), "-", Pad2(m), "-", Pad2(d + 1)>>
           \/ d = MonthLengths(y)[m] /\ m < 12
              /\ b = <<ToString(y), "-", Pad2(m + 1), "-", "01">>

\* the SQL string literals of a statement, read as a database reads them: a
\* literal opens at a quote and closes at the next quote that is not doubled
RECURSIVE ScanLiterals(_, _, _, _)
ScanLiterals(text, inside, cur, acc) ==
    IF text = <<>>
    THEN IF inside THEN Append(acc, <<"unterminated">>) ELSE acc
    ELSE IF ~inside
    THEN ScanLiterals(Tail(text), Head(text) = Q, <<>>, acc)
    ELSE IF Head(text) # Q
    THEN ScanLiterals(Tail(text), TRUE, Append(cur, Head(text)), acc)
    ELSE IF Len(text) >= 2 /\ text[2] = Q
    THEN ScanLiterals(Tail(Tail(text)), TRUE, Append(cur, Q), acc)
    ELSE ScanLiterals(Tail(text), FALSE, <<>>, Append(acc, cur))

SqlLiterals(stmt) == ScanLiterals(stmt, FALSE, <<>>, <<>>)

\* the statement up to and including the quote that opens the remark
StmtHead(table_name, row) ==
    <<"INSERT INTO ">> \o table_name \o <<" VALUES (", Q>>
        \o IntText(row.YEAR) \o <<Q, ", ", Q>>
        \o row.CALENDAR_DATE \o <<Q, ", ", Q>>
        \o row.DATE_TYPE \o <<Q, ", ", Q>>

\* the pieces of a statement between the opening quote of the remark and the
\* final quote
RemarkPart(table_name, row, stmt) ==
    SubSeq(stmt, Len(StmtHead(table_name, row)) + 1, Len(stmt) - 2)

\* doubled quotes read back as one quote
RECURSIVE Undouble(_)
Undouble(text) ==
    IF text = <<>> THEN <<>>
    ELSE IF Head(text) # Q THEN <<Head(text)>> \o Undouble(Tail(text))
    ELSE IF Len(text) >= 2 /\ text[2] = Q THEN <<Q>> \o Undouble(Tail(Tail(text)))
    ELSE <<"lone quote">> \o Undouble(Tail(text))

\* the statement is the template filled with the row's year, date, type code
\* and (escaped) remark
Carries(table_name, row, stmt) ==
    LET h == StmtHead(table_name, row) IN
    /\ Len(stmt) >= Len(h) + 2
    /\ SubSeq(stmt, 1, Len(h)) = h
    /\ SubSeq(stmt, Len(stmt) - 1, Len(stmt)) = <<Q, ");\n">>
    /\ Undouble(RemarkPart(table_name, row, stmt)) = row.COMMENTS

\* the four codes of the configuration in use
CodeOfRole(r) ==
    IF r = "workday" THEN date_judge.workday_code
    ELSE IF r = "weekend" THEN date_judge.weekend_code
    ELSE IF r = "holiday" THEN date_judge.holiday_code
    ELSE date_judge.working_holiday_code

CodesDistinct ==
    \A r1, r2 \in RoleSet : r1 # r2 => CodeOfRole(r1) # CodeOfRole(r2)

\* the required keys the configuration document lacks under date_types
MissingRoles ==
    IF config_file.exists /\ config_file.yaml_ok
          /\ "date_types" \in DOMAIN config_file.doc
    THEN RoleSet \ DOMAIN config_file.doc.date_types
    ELSE {}

FileComplete(path) == path \in DOMAIN fs.files /\ fs.files[path].complete

\* days is the year y: from y-01-01 to y-12-31, day after day, 366 dates in a
\* leap year and 365 otherwise
WholeYearOK(y, days) ==
    /\ Len(days) = (IF LeapYear(y) THEN 366 ELSE 365)
    /\ days[1] = <<ToString(y), "-", "01", "-", "01">>
    /\ days[Len(days)] = <<ToString(y), "-", "12", "-", "31">>
    /\ \A i \in 1..(Len(days) - 1) : DayAfterIn(y, days[i], days[i + 1])

\* every date has one record, and its emitted code is the code of exactly one
\* of the four roles
OneGroupEach ==
    /\ Len(df) = Len(dates)
    /\ \A i \in 1..Len(df) :
        /\ df[i].CALENDAR_DATE = dates[i]
        /\ Cardinality({r \in RoleSet : CodeOfRole(r) = df[i].DATE_TYPE}) = 1

(***************************************************************************)
(* C1: judge_date_type returns the pair of the priority table.  For every  *)
(* date classified, with the oracle's answers (is_holiday,                 *)
(* is_workday, name): holiday and a name -> (holiday code, name); holiday  *)
(* and no name -> (weekend code, ""); not holiday, workday and a name ->   *)
(* (working_holiday code, name); not holiday, workday and no name ->       *)
(* (workday code, ""); the holiday test comes first, and the remark is     *)
(* non-empty only with the holiday or the working_holiday code.            *)
(***************************************************************************)
C1_PriorityTable ==
    \A i \in 1..Len(df) :
        LET a == AnswerFor(dates[i])
            t == df[i].DATE_TYPE
            r == df[i].COMMENTS
        IN  /\ df[i].CALENDAR_DATE = dates[i]
            /\ (a.is_holiday /\ a.name # NoName)
                  => (t = date_judge.holiday_code /\ r = a.name[1])
            /\ (a.is_holiday /\ a.name = NoName)
                  => (t = date_judge.weekend_code /\ r = <<>>)
            /\ (~a.is_holiday /\ a.is_workday /\ a.name # NoName)
                  => (t = date_judge.working_holiday_code /\ r = a.name[1])
            /\ (~a.is_holiday /\ a.is_workday /\ a.name = NoName)
                  => (t = date_judge.workday_code /\ r = <<>>)
            /\ r # <<>> => t \in {date_judge.holiday_code,
                                  date_judge.working_holiday_code}

\* a date the oracle calls both a holiday and a workday, with a name, has
\* been classified
C1_Witness ==
    \E i \in 1..Len(df) :
        /\ AnswerFor(dates[i]).is_holiday
        /\ AnswerFor(dates[i]).is_workday
        /\ AnswerFor(dates[i]).name # NoName

(***************************************************************************)
(* C2: a date for which the oracle reports neither holiday nor workday is  *)
(* never classified; the run fails there with a ValueError naming that     *)
(* date, exactly the dates before it having been classified, and no        *)
(* filesystem operation has been made by the run (in a first run the       *)
(* filesystem is still empty: no directory, no file).                      *)
(***************************************************************************)
C2_NeitherAborts ==
    /\ \A i \in 1..Len(df) : ~Neither(dates[i])
    /\ pc = "loop" => io_trace = <<>>
    /\ ClassifyFailed =>
        LET bad == dates[Len(sql_statements) + 1] IN
        /\ Neither(bad)
        /\ exc = Exc("ValueError", bad)
        /\ Len(df) = Len(sql_statements)
        /\ log = << <<"ERROR", "no type matched", bad>>,
                    <<"ERROR", "run failed", "ValueError">> >>
        /\ io_trace = <<>>
        /\ first_run => fs = EmptyFS

\* the run failed on the last date of the year
C2_Witness ==
    /\ ClassifyFailed
    /\ first_run
    /\ Len(sql_statements) = Len(dates) - 1
    /\ Len(df) >= 364

(***************************************************************************)
(* C3 (as claimed): after an I/O failure in _save_files neither output     *)
(* file written by this run exists.                                        *)
(***************************************************************************)
C3_NoPartialOutput ==
    (first_run /\ pc = "failed" /\ exc.type = "OSError")
        => (SqlFile(config) \notin DOMAIN fs.files
            /\ CsvFile(config) \notin DOMAIN fs.files)

(***************************************************************************)
(* C3 (amended): an I/O failure in _save_files aborts the run and nothing  *)
(* is cleaned up.  If the directory cannot be created nothing was          *)
(* written; if the .sql write fails the .csv write is not attempted; if    *)
(* the .csv write fails after the .sql write succeeded, the complete .sql  *)
(* file of this run is retained.                                           *)
(***************************************************************************)
C3_AbortKeepsWhatWasWritten ==
    (pc = "failed" /\ exc.type = "OSError") =>
        /\ AllClassified
        /\ exc.arg = <<config.save_path>> => io_trace = <<>>
        /\ exc.arg = <<SqlFile(config)>> =>
            /\ io_trace \in {<<"mkdir">>, <<"mkdir", "sql partial">>}
            /\ first_run => CsvFile(config) \notin DOMAIN fs.files
        /\ exc.arg = <<CsvFile(config)>> =>
            /\ io_trace \in {<<"mkdir", "sql">>, <<"mkdir", "sql", "csv partial">>}
            /\ FileComplete(SqlFile(config))
            /\ fs.files[SqlFile(config)].data = sql_statements
            /\ first_run => ~FileComplete(CsvFile(config))
        /\ first_run => (io_trace = <<>> => fs = EmptyFS)

\* the .sql write succeeded and the .csv write failed
C3_Witness ==
    /\ pc = "failed"
    /\ first_run
    /\ exc = Exc("OSError", <<CsvFile(config)>>)
    /\ FileComplete(SqlFile(config))

(***************************************************************************)
(* C4 (as claimed, for the years datetime.date can hold): get_whole_year   *)
(* returns, and the list starts at Y-01-01, ends at Y-12-31, advances by   *)
(* exactly one calendar day, and has 366 elements iff Y is a leap year,    *)
(* else 365.                                                               *)
(***************************************************************************)
C4_WholeYear ==
    (pc # "generate" /\ config.target_year \in MINYEAR..MAXYEAR)
        => (pc = "loop" /\ WholeYearOK(config.target_year, dates))

(***************************************************************************)
(* C5 (as claimed): after a successful generate() every date has one       *)
(* record and its emitted code is the code of exactly one of the four      *)
(* roles, for every accepted configuration.                                *)
(***************************************************************************)
C5_PartitionAnyConfig == pc = "done" => OneGroupEach

(***************************************************************************)
(* C5 (amended): after a successful generate() every date of the year has  *)
(* exactly one record, whose code is one of the four configured codes;     *)
(* when the configuration gives the four roles pairwise distinct codes,    *)
(* grouping by emitted code partitions the year into the four groups.      *)
(***************************************************************************)
C5_PartitionDistinctCodes ==
    pc = "done" =>
        /\ Len(df) = Len(dates)
        /\ \A i \in 1..Len(df) :
            /\ df[i].CALENDAR_DATE = dates[i]
            /\ \E r \in RoleSet : CodeOfRole(r) = df[i].DATE_TYPE
        /\ CodesDistinct => OneGroupEach

\* a successful run under four distinct codes, each of them emitted
C5_Witness ==
    /\ pc = "done"
    /\ CodesDistinct
    /\ \A r \in RoleSet : \E i \in 1..Len(df) : df[i].DATE_TYPE = CodeOfRole(r)

(***************************************************************************)
(* C6: after a successful generate() the SQL statements and the tabular    *)
(* rows are as many as the days of the target year, both in calendar       *)
(* order, and the N-th statement and the N-th row carry the same year,     *)
(* date, type code and remark; the two files hold them in that order.      *)
(***************************************************************************)
C6_RowsMatchStatements ==
    pc = "done" =>
        /\ Len(df) = (IF LeapYear(config.target_year) THEN 366 ELSE 365)
        /\ Len(sql_statements) = Len(df)
        /\ \A n \in 1..Len(df) :
            /\ df[n].YEAR = config.target_year
            /\ strptime(df[n].CALENDAR_DATE)[1] = config.target_year
            /\ n < Len(df) => DayAfter(df[n].CALENDAR_DATE, df[n + 1].CALENDAR_DATE)
            /\ Carries(config.table_name, df[n], sql_statements[n])
        /\ fs.files[SqlFile(config)].data = sql_statements
        /\ LET csv == fs.files[CsvFile(config)].data IN
            /\ Len(csv) = Len(df) + 2
            /\ csv[2] = Columns
            /\ \A n \in 1..Len(df) :
                csv[n + 2] = <<IntText(df[n].YEAR), df[n].CALENDAR_DATE,
                               df[n].DATE_TYPE, df[n].COMMENTS>>

\* a successful run of a leap year whose rows hold remarks with quotes
C6_Witness ==
    /\ pc = "done"
    /\ Len(df) = 366
    /\ \E n \in 1..Len(df) : CountQ(df[n].COMMENTS) > 0

(***************************************************************************)
(* C7 (as claimed): every emitted statement has balanced single quotes.    *)
(***************************************************************************)
C7_AlwaysBalanced ==
    \A n \in 1..Len(sql_statements) : CountQ(sql_statements[n]) % 2 = 0

(***************************************************************************)
(* C7 (amended): in the statement generate_sql emits, every single quote   *)
(* of the remark appears doubled and nothing else of the remark is         *)
(* changed; when the table name and the type code hold no single quote,    *)
(* the quotes of the statement are balanced and its four literals read     *)
(* back as the year, the date, the type code and the remark.               *)
(***************************************************************************)
C7_RemarkEscaped ==
    /\ Len(df) = Len(sql_statements)
    /\ \A n \in 1..Len(sql_statements) :
        LET stmt == sql_statements[n]
            e    == RemarkPart(config.table_name, df[n], stmt)
            r    == df[n].COMMENTS
        IN  /\ Carries(config.table_name, df[n], stmt)
            /\ Len(e) = Len(r) + CountQ(r)
            /\ CountQ(e) = 2 * CountQ(r)
            /\ (CountQ(config.table_name) = 0 /\ CountQ(df[n].DATE_TYPE) = 0)
                => /\ CountQ(stmt) % 2 = 0
                   /\ SqlLiterals(stmt) =
                        <<IntText(df[n].YEAR), df[n].CALENDAR_DATE,
                          df[n].DATE_TYPE, r>>

\* a statement for a remark holding quotes, under a quote-free type code
C7_Witness ==
    /\ CountQ(config.table_name) = 0
    /\ \E n \in 1..Len(sql_statements) :
        /\ CountQ(df[n].COMMENTS) >= 3
        /\ CountQ(df[n].DATE_TYPE) = 0
        /\ CountQ(sql_statements[n]) = 8 + 2 * CountQ(df[n].COMMENTS)

(***************************************************************************)
(* C8: when date_types lacks a required key, the run fails with a          *)
(* KeyError naming a missing key, before any date is enumerated or         *)
(* classified and before the filesystem is touched.                        *)
(***************************************************************************)
C8_MissingKeyFailsFast ==
    MissingRoles # {} =>
        /\ pc \in {"start", "new_generator", "failed"}
        /\ dates = <<>> /\ df = <<>> /\ sql_statements = <<>>
        /\ io_trace = <<>> /\ fs = EmptyFS
        /\ pc = "failed" =>
            /\ exc.type = "KeyError"
            /\ \E k \in MissingRoles : exc.arg = <<k>>
            /\ log = << <<"ERROR", "run failed", "KeyError">> >>

\* the run failed on a configuration without the holiday key
C8_Witness ==
    /\ pc = "failed"
    /\ "holiday" \in MissingRoles
    /\ exc = Exc("KeyError", <<"holiday">>)

(***************************************************************************)
(* C9: a later run over the same configuration and oracle produces the     *)
(* same output: once it has classified the year, a complete .sql or .csv   *)
(* file left by an earlier run holds exactly the statements and rows this  *)
(* run produced, and so does every file this run writes.                   *)
(***************************************************************************)
C9_SameOutputAgain ==
    AllClassified =>
        /\ FileComplete(SqlFile(config))
              => fs.files[SqlFile(config)].data = sql_statements
        /\ FileComplete(CsvFile(config))
              => fs.files[CsvFile(config)].data = to_csv(df)

\* a second run is about to overwrite the complete files of the first
C9_Witness ==
    /\ ~first_run
    /\ pc = "write_sql"
    /\ io_trace = <<"mkdir">>
    /\ FileComplete(SqlFile(config))
    /\ FileComplete(CsvFile(config))

(***************************************************************************)
(* C10: a run is successful only after both files are written; the         *)
(* filesystem is touched only once every date is classified; the events    *)
(* come in the order load, classify, mkdir, .sql, .csv, done; and every    *)
(* failure is logged and leaves the run failed, never successful.          *)
(***************************************************************************)
C10_OrderOfEvents ==
    /\ io_trace \in {<<>>, <<"mkdir">>, <<"mkdir", "sql">>,
                     <<"mkdir", "sql partial">>, <<"mkdir", "sql", "csv">>,
                     <<"mkdir", "sql", "csv partial">>}
    /\ io_trace # <<>> => AllClassified /\ Len(df) = Len(dates)
    /\ dates # <<>> => config.save_path # ""
    /\ pc = "done" =>
        /\ io_trace = <<"mkdir", "sql", "csv">>
        /\ exc = NoExc
        /\ config.save_path \in fs.dirs
        /\ FileComplete(SqlFile(config))
        /\ FileComplete(CsvFile(config))
    /\ exc # NoExc <=> pc = "failed"
    /\ pc = "failed" =>
        /\ log # <<>>
        /\ log[Len(log)] = <<"ERROR", "run failed", exc.type>>
        /\ io_trace # <<"mkdir", "sql", "csv">>

\* a run completed
C10_Witness ==
    /\ pc = "done"
    /\ first_run
    /\ Len(log) = 3

====
